---- MODULE Spec2Model ----
(***************************************************************************)
(* image-to-ascii-api: the `generate` pipeline (src/src/generate.rs) and   *)
(* the rocket handlers (src/src/main.rs).                                  *)
(*                                                                         *)
(* Strings that the code inspects (image_url, out_path, request paths) are *)
(* sequences of tokens: a scheme token ("https://"), the separator "/",    *)
(* the dot "." and plain text tokens.  Durations are integer ticks,        *)
(* TicksPerSec ticks to the second.                                        *)
(***************************************************************************)
EXTENDS Integers, Sequences, FiniteSets, TLC

\* ------------------------------------------------------------------ bounds
MaxFrames == 2      \* decoded frames held by the remote image file
MaxWidth == 2       \* args.width ranges over 0..MaxWidth
MaxThreads == 2     \* args.threads ranges over 0..MaxThreads
MaxFps == 2         \* args.fps ranges over -1..MaxFps
MaxElapsed == 5     \* ticks one println! may take
MaxStdout == 3      \* stdout keeps its last MaxStdout writes
MaxRequests == 3    \* requests the server log keeps
FrameRows == 2      \* tile rows of a frame (source_height / cell_height)
TicksPerSec == 4    \* resolution of the clock

\* Option<T>: None is the empty sequence, Some(x) the sequence of x alone.
None == <<>>
Some(x) == <<x>>
Unwrap(opt) == opt[1]

\* An output slot no worker has written yet.
Empty == "Empty"

\* No font loaded.
NoFont == "NoFont"

\* ------------------------------------------------------------------ inputs
HttpsGif == <<"https://", "host", "/", "img", ".", "gif">>
HttpPng == <<"http://", "host", "/", "img", ".", "png">>
HttpsNoExt == <<"https://", "host", "/", "img">>
FtpGif == <<"ftp://", "host", "/", "img", ".", "gif">>

ImageUrls == {HttpsGif, HttpPng, HttpsNoExt, FtpGif}

OutJson == <<"out", ".", "json">>
OutGif == <<"out", ".", "gif">>
OutPng == <<"out", ".", "png">>
OutNoExt == <<"out">>

OutPaths == {None, Some(OutJson), Some(OutGif), Some(OutPng), Some(OutNoExt)}

\* The files of the host that fs::read can read, with their bytes.
ReadableFiles == {"chars.txt"}

FileBytes(path) == <<64, 35>>

AlphabetArgs == {"minimal", "chars.txt", "missing.txt"}

FontArgs == {"courier", "nofont.bdf"}

FpsValues == (-1)..MaxFps

ParamsSet ==
    [image_url : ImageUrls, font : FontArgs, alphabet : AlphabetArgs,
     width : 0..MaxWidth, metric : {"grad"}, threads : 0..MaxThreads,
     no_color : BOOLEAN, brightness_offset : {0}, noise_scale : {0},
     out_path : OutPaths, fps : FpsValues, no_edge_detection : {FALSE}]

\* ------------------------------------------------------------------ tables
ALPHABETS ==
    [name \in {"alphabet", "letters", "lowercase", "minimal", "symbols", "uppercase"} |->
        CASE name = "minimal" -> <<"#", ".">>
          [] name = "symbols" -> <<"@", "%", "*">>
          [] name = "lowercase" -> <<"a", "b">>
          [] name = "uppercase" -> <<"A", "B">>
          [] name = "letters" -> <<"a", "A">>
          [] OTHER -> <<"a", "#", ".">>]

FONTS == {"courier", "bitocra-13"}

\* ------------------------------------------------------------------ strings
StartsWith(s, prefix) == Len(s) >= 1 /\ s[1] = prefix

IsSeparator(tok) == tok \in {"/", "http://", "https://", "ftp://"}

\* Path::file_name: the tokens after the last separator.
FileName(p) ==
    LET seps == {i \in 1..Len(p) : IsSeparator(p[i])}
        last == IF seps = {} THEN 0 ELSE CHOOSE i \in seps : \A j \in seps : j <= i
    IN SubSeq(p, last + 1, Len(p))

\* Path::extension: the part of the file name after its last dot; None when
\* there is no file name, no dot, or the only dot leads the name.
Extension(p) ==
    LET f == FileName(p)
        dots == {i \in 1..Len(f) : f[i] = "."}
        last == IF dots = {} THEN 0 ELSE CHOOSE i \in dots : \A j \in dots : j <= i
    IN IF f = <<>> \/ last <= 1 THEN None ELSE Some(SubSeq(f, last + 1, Len(f)))

\* `b as char` of a byte.
ByteAsChar(b) ==
    CASE b = 35 -> "#"
      [] b = 46 -> "."
      [] b = 64 -> "@"
      [] OTHER -> "?"

\* ------------------------------------------------------------------ state
VARIABLES
    args,             \* the Params generate was called with
    remote,           \* number of frames the remote image file decodes to
    pc,               \* position of generate
    panicAt,          \* source line of the unwrap/constructor that panicked, or 0
    image,            \* the DynamicImage download_image returned (a frame id), or None
    in_extension,
    alphabet,
    font,
    frames,
    frame_char_rows,
    cur,              \* position of the iterator over frames (1-based)
    cells,            \* output slots of the conversion in progress
    writers,          \* which workers wrote each slot
    out_extension,
    out_frames,
    play,             \* index of the next frame of the playback loop
    elapsed,          \* t0.elapsed() of the last printed frame
    slept,            \* duration of the last sleep (0: none)
    prev_elapsed,     \* history: t0.elapsed() of the frame printed before the last
    stdout,
    stderr,
    files,            \* artifacts written, in order
    calls,            \* invocations of generate
    served            \* requests answered by the server, with their responses

genVars == <<args, remote, pc, panicAt, image, in_extension, alphabet, font, frames,
             frame_char_rows, cur, cells, writers, out_extension, out_frames, play,
             elapsed, slept, prev_elapsed, stdout, stderr, files, calls>>

vars == <<genVars, served>>

runVars == <<args, remote, calls, served, prev_elapsed>>

Panic(line) == pc' = "panicked" /\ panicAt' = line

\* stdout, cut to its last MaxStdout writes.
Push(log, entry) ==
    LET all == Append(log, entry)
    IN IF Len(all) > MaxStdout THEN Tail(all) ELSE all

\* ------------------------------------------------------------------ convert
NumTiles(width) == FrameRows * width

\* Glyph selection for one tile: a function of the tile (frame, position) and the
\* catalog alone.
PickGlyph(frame, k, catalog) == catalog[((frame + k) % Len(catalog)) + 1]

\* The worker a tile is handed to.
WorkerOf(k, threads) == ((k - 1) % threads) + 1

\* The character grid, row-major, as rows of `width` cells.
Rows(slots, width) ==
    [r \in 1..(Len(slots) \div width) |-> SubSeq(slots, (r - 1) * width + 1, r * width)]

\* ------------------------------------------------------------------ renderers
char_rows_to_string(char_rows) ==
    [fmt |-> "plain", grid |-> char_rows, frame |-> 0, font |-> NoFont]

char_rows_to_html_color_string(char_rows, frame) ==
    [fmt |-> "html", grid |-> char_rows, frame |-> frame, font |-> NoFont]

char_rows_to_terminal_color_string(char_rows, frame) ==
    [fmt |-> "ansi", grid |-> char_rows, frame |-> frame, font |-> NoFont]

char_rows_to_bitmap(char_rows, f) ==
    [fmt |-> "bitmap", grid |-> char_rows, frame |-> 0, font |-> f]

char_rows_to_color_bitmap(char_rows, f, frame) ==
    [fmt |-> "color_bitmap", grid |-> char_rows, frame |-> frame, font |-> f]

Min(a, b) == IF a < b THEN a ELSE b

\* a.iter().zip(b)
Zip(a, b) == [i \in 1..Min(Len(a), Len(b)) |-> <<a[i], b[i]>>]

\* ------------------------------------------------------------------ generate
Idle ==
    /\ pc = "idle" /\ panicAt = 0 /\ image = None /\ in_extension = None
    /\ alphabet = <<>> /\ font = NoFont /\ frames = <<>> /\ frame_char_rows = <<>>
    /\ cur = 0 /\ cells = <<>> /\ writers = <<>> /\ out_extension = None /\ out_frames = <<>>
    /\ play = 0 /\ elapsed = 0 /\ slept = 0 /\ prev_elapsed = 0
    /\ stdout = <<>> /\ stderr = <<>> /\ files = <<>>

\* A static file decodes to one frame, an animated one to one or more.
RemoteFrames(url) == IF Extension(url) = Some(<<"gif">>) THEN 1..MaxFrames ELSE {1}

\* generate(args) has just been entered.
Init ==
    /\ args \in ParamsSet
    /\ remote \in RemoteFrames(args.image_url)
    /\ calls = 1
    /\ served = <<>>
    /\ pc = "start" /\ panicAt = 0 /\ image = None /\ in_extension = None
    /\ alphabet = <<>> /\ font = NoFont /\ frames = <<>> /\ frame_char_rows = <<>>
    /\ cur = 0 /\ cells = <<>> /\ writers = <<>> /\ out_extension = None /\ out_frames = <<>>
    /\ play = 0 /\ elapsed = 0 /\ slept = 0 /\ prev_elapsed = 0
    /\ stdout = <<>> /\ stderr = <<>> /\ files = <<>>

\* image::load_from_memory yields the first frame of the body.
download_image(ok) == IF ok THEN Some(1) ELSE None

\* An error arm that returns without reporting.
DownloadFailedSilent ==
    /\ pc' = "returned"
    /\ UNCHANGED <<stderr, image>>

\* Lines 68-71, 241-249: the scheme test, the download and its two error arms.
DownloadFailed ==
    /\ pc' = "returned"
    /\ stderr' = Append(stderr, "Error downloading image")
    /\ UNCHANGED <<image>>

Download ==
    /\ pc = "start"
    /\ IF StartsWith(args.image_url, "http://") \/ StartsWith(args.image_url, "https://")
       THEN \E ok \in BOOLEAN :
              IF download_image(ok) # None
              THEN /\ image' = download_image(ok)
                   /\ pc' = "downloaded"
                   /\ UNCHANGED stderr
              ELSE DownloadFailed
       ELSE /\ pc' = "returned"
            /\ stderr' = Append(stderr, "Invalid URL format")
            /\ UNCHANGED image
    /\ UNCHANGED <<runVars, panicAt, in_extension, alphabet, font, frames, frame_char_rows,
                   cur, cells, writers, out_extension, out_frames, play, elapsed, slept,
                   stdout, files>>

\* Line 72.
InExtension ==
    /\ pc = "downloaded"
    /\ IF Extension(args.image_url) = None
       THEN Panic(72) /\ UNCHANGED in_extension
       ELSE /\ in_extension' = Extension(args.image_url)
            /\ pc' = "alphabet"
            /\ UNCHANGED panicAt
    /\ UNCHANGED <<runVars, image, alphabet, font, frames, frame_char_rows, cur, cells,
                   writers, out_extension, out_frames, play, elapsed, slept, stdout, stderr, files>>

\* Lines 74-92.
LoadAlphabet ==
    /\ pc = "alphabet"
    /\ IF args.alphabet \in DOMAIN ALPHABETS
       THEN /\ alphabet' = ALPHABETS[args.alphabet]
            /\ pc' = "font"
            /\ UNCHANGED panicAt
       ELSE IF args.alphabet \in ReadableFiles
            THEN /\ alphabet' = [i \in 1..Len(FileBytes(args.alphabet)) |->
                                    ByteAsChar(FileBytes(args.alphabet)[i])]
                 /\ pc' = "font"
                 /\ UNCHANGED panicAt
            ELSE Panic(87) /\ UNCHANGED alphabet
    /\ UNCHANGED <<runVars, image, in_extension, font, frames, frame_char_rows, cur, cells,
                   writers, out_extension, out_frames, play, elapsed, slept, stdout,
                   stderr, files>>

\* Lines 137-141: both arms build a list of the one decoded image.
FrameList(ext, img) == IF ext = Some(<<"gif">>) THEN <<Unwrap(img)>> ELSE <<Unwrap(img)>>

\* Lines 97-141: the font, the remaining arguments, the metric and the frame list.

LoadFont ==
    /\ pc = "font"
    /\ IF args.font \in FONTS
       THEN /\ font' = args.font
            /\ frames' = FrameList(in_extension, image)
            /\ cur' = 1
            /\ pc' = "convert"
            /\ UNCHANGED panicAt
       ELSE Panic(106) /\ UNCHANGED <<font, frames, cur>>
    /\ UNCHANGED <<runVars, image, in_extension, alphabet, frame_char_rows, cells, writers,
                   out_extension, out_frames, play, elapsed, slept, stdout, stderr, files>>

\* convert::img_to_char_rows, entered: one empty slot per tile.  It returns a grid,
\* never an error value: a thread count or a width below 1 ends in a panic.
ImgToCharRowsEnter ==
    IF args.threads < 1 \/ args.width < 1
    THEN Panic(146) /\ UNCHANGED <<cells, writers>>
    ELSE /\ cells' = [k \in 1..NumTiles(args.width) |-> Empty]
         /\ writers' = [k \in 1..NumTiles(args.width) |-> {}]
         /\ pc' = "tiling"
         /\ UNCHANGED panicAt

\* Lines 145-155: the loop takes the next frame and calls the tile converter.
ConvertCall ==
    /\ pc = "convert"
    /\ cur <= Len(frames)
    /\ ImgToCharRowsEnter
    /\ UNCHANGED <<runVars, image, in_extension, alphabet, font, frames, frame_char_rows, cur,
                   out_extension, out_frames, play, elapsed, slept, stdout, stderr, files>>

\* The tiles worker w has still to convert.
Pending(w) ==
    {k \in 1..Len(cells) : WorkerOf(k, args.threads) = w /\ w \notin writers[k]}

\* A worker that writes to the slot of the tile's index in its own share.
WorkerLocalSlot(w) ==
    /\ pc = "tiling"
    /\ Pending(w) # {}
    /\ LET k == CHOOSE i \in Pending(w) : \A j \in Pending(w) : i <= j
           slot == ((k - 1) \div args.threads) + 1
       IN /\ cells' = [cells EXCEPT ![slot] = PickGlyph(frames[cur], k, alphabet)]
          /\ writers' = [writers EXCEPT ![slot] = @ \cup {w}]
    /\ UNCHANGED <<runVars, pc, panicAt, image, in_extension, alphabet, font, frames,
                   frame_char_rows, cur, out_extension, out_frames, play, elapsed, slept,
                   stdout, stderr, files>>

\* One worker converts its next tile and writes the glyph to the tile's slot.
Worker(w) ==
    /\ pc = "tiling"
    /\ Pending(w) # {}
    /\ LET k == CHOOSE i \in Pending(w) : \A j \in Pending(w) : i <= j
       IN /\ cells' = [cells EXCEPT ![k] = PickGlyph(frames[cur], k, alphabet)]
          /\ writers' = [writers EXCEPT ![k] = @ \cup {w}]
    /\ UNCHANGED <<runVars, pc, panicAt, image, in_extension, alphabet, font, frames,
                   frame_char_rows, cur, out_extension, out_frames, play, elapsed, slept,
                   stdout, stderr, files>>

\* The join barrier of img_to_char_rows: every worker has finished its tiles.
Joined == \A w \in 1..args.threads : Pending(w) = {}

\* The iterator advances and the returned grid is dropped.
PushGridDropped ==
    /\ frame_char_rows' = frame_char_rows
    /\ cur' = cur + 1

\* Line 156: the returned grid is appended and the iterator advances.
PushGrid ==
    /\ frame_char_rows' = Append(frame_char_rows, Rows(cells, args.width))
    /\ cur' = cur + 1

ConvertReturn ==
    /\ pc = "tiling"
    /\ Joined
    /\ PushGrid
    /\ pc' = "convert"
    /\ cells' = <<>>
    /\ writers' = <<>>
    /\ UNCHANGED <<runVars, panicAt, image, in_extension, alphabet, font, frames,
                   out_extension, out_frames, play, elapsed, slept, stdout, stderr, files>>

\* Lines 157-160: the loop is over; the output branch is chosen.
OutExtension ==
    /\ pc = "convert"
    /\ cur > Len(frames)
    /\ IF args.out_path = None
       THEN pc' = "render" /\ UNCHANGED <<panicAt, out_extension>>
       ELSE IF Extension(Unwrap(args.out_path)) = None
            THEN Panic(160) /\ UNCHANGED out_extension
            ELSE /\ out_extension' = Extension(Unwrap(args.out_path))
                 /\ pc' = "write"
                 /\ UNCHANGED panicAt
    /\ UNCHANGED <<runVars, image, in_extension, alphabet, font, frames, frame_char_rows, cur,
                   cells, writers, out_frames, play, elapsed, slept, stdout, stderr, files>>

\* One artifact handed to the writer.
Artifact(kind, content, fps) ==
    [path |-> Unwrap(args.out_path), kind |-> kind, content |-> content, fps |-> fps]

\* Lines 163-176.
JsonFrames ==
    IF ~args.no_color
    THEN [i \in DOMAIN Zip(frame_char_rows, frames) |->
            char_rows_to_html_color_string(Zip(frame_char_rows, frames)[i][1],
                                           Zip(frame_char_rows, frames)[i][2])]
    ELSE [i \in DOMAIN frame_char_rows |-> char_rows_to_string(frame_char_rows[i])]

\* Lines 162-178.
WriteJson ==
    /\ pc = "write"
    /\ out_extension = Some(<<"json">>)
    /\ out_frames' = JsonFrames
    /\ \E ok \in BOOLEAN :
         IF ok
         THEN /\ files' = Append(files, Artifact("json", JsonFrames, 0))
              /\ pc' = "returned"
              /\ UNCHANGED panicAt
         ELSE Panic(178) /\ UNCHANGED files
    /\ UNCHANGED <<runVars, image, in_extension, alphabet, font, frames, frame_char_rows, cur,
                   cells, writers, out_extension, play, elapsed, slept, stdout, stderr>>

\* Lines 182-197.
GifFrames ==
    IF ~args.no_color
    THEN [i \in DOMAIN Zip(frame_char_rows, frames) |->
            char_rows_to_color_bitmap(Zip(frame_char_rows, frames)[i][1], font,
                                      Zip(frame_char_rows, frames)[i][2])]
    ELSE [i \in DOMAIN frame_char_rows |-> char_rows_to_bitmap(frame_char_rows[i], font)]

\* gif::write_gif: every bitmap, in order, with the frame rate; it returns nothing,
\* so a failed write ends in a panic.
write_gif(bitmaps, fps, ok) ==
    IF ok
    THEN /\ files' = Append(files, Artifact("gif", bitmaps, fps))
         /\ pc' = "returned"
         /\ UNCHANGED panicAt
    ELSE Panic(198) /\ UNCHANGED files

\* Lines 179-198.
WriteGif ==
    /\ pc = "write"
    /\ out_extension = Some(<<"gif">>)
    /\ out_frames' = GifFrames
    /\ \E ok \in BOOLEAN : write_gif(GifFrames, args.fps, ok)
    /\ UNCHANGED <<runVars, image, in_extension, alphabet, font, frames, frame_char_rows, cur,
                   cells, writers, out_extension, play, elapsed, slept, stdout, stderr>>

\* Lines 199-205.
SaveImage ==
    /\ pc = "write"
    /\ out_extension \notin {Some(<<"json">>), Some(<<"gif">>)}
    /\ LET img == IF ~args.no_color
                  THEN char_rows_to_color_bitmap(frame_char_rows[1], font, frames[1])
                  ELSE char_rows_to_bitmap(frame_char_rows[1], font)
       IN \E ok \in BOOLEAN :
            IF ok
            THEN /\ files' = Append(files, Artifact("bitmap", <<img>>, 0))
                 /\ pc' = "returned"
                 /\ UNCHANGED panicAt
            ELSE Panic(205) /\ UNCHANGED files
    /\ UNCHANGED <<runVars, image, in_extension, alphabet, font, frames, frame_char_rows, cur,
                   cells, writers, out_extension, out_frames, play, elapsed, slept, stdout,
                   stderr>>

\* Lines 208-221.
TerminalFrames ==
    IF ~args.no_color
    THEN [i \in DOMAIN Zip(frame_char_rows, frames) |->
            char_rows_to_terminal_color_string(Zip(frame_char_rows, frames)[i][1],
                                               Zip(frame_char_rows, frames)[i][2])]
    ELSE [i \in DOMAIN frame_char_rows |-> char_rows_to_string(frame_char_rows[i])]

\* Lines 208-224, 236.
RenderTerminal ==
    /\ pc = "render"
    /\ out_frames' = TerminalFrames
    /\ play' = 1
    /\ pc' = IF in_extension = Some(<<"gif">>) THEN "play" ELSE "print"
    /\ UNCHANGED <<runVars, panicAt, image, in_extension, alphabet, font, frames,
                   frame_char_rows, cur, cells, writers, out_extension, elapsed, slept,
                   stdout, stderr, files>>

\* 1.0 / fps, in ticks: infinite for fps = 0, negative for fps < 0.
Period(fps) ==
    IF fps = 0 THEN [inf |-> TRUE, ticks |-> 0]
    ELSE IF fps > 0 THEN [inf |-> FALSE, ticks |-> TicksPerSec \div fps]
    ELSE [inf |-> FALSE, ticks |-> 0 - (TicksPerSec \div (0 - fps))]

\* Delay with t0 taken before the previous frame: its print time is charged again.
DelayCarry(fps, t) ==
    [inf |-> Period(fps).inf, ticks |-> Period(fps).ticks - (t + elapsed)]

\* Line 230: (1.0 / fps) - elapsed.
Delay(fps, t) ==
    [inf |-> Period(fps).inf, ticks |-> Period(fps).ticks - t]

\* Lines 226-234: one pass of the body of the playback loop.  Duration::from_secs_f64
\* panics on a value that is not finite.
PlayFrame ==
    /\ pc = "play"
    /\ \E t \in 0..MaxElapsed :
         /\ stdout' = Push(stdout, [clear |-> TRUE, text |-> out_frames[play]])
         /\ elapsed' = t
         /\ prev_elapsed' = elapsed
         /\ IF Delay(args.fps, t).inf
            THEN Panic(232) /\ UNCHANGED <<slept, play>>
            ELSE /\ slept' = IF Delay(args.fps, t).ticks > 0
                             THEN Delay(args.fps, t).ticks ELSE 0
                 /\ play' = IF play = Len(out_frames) THEN 1 ELSE play + 1
                 /\ UNCHANGED <<pc, panicAt>>
    /\ UNCHANGED <<args, remote, calls, served, image, in_extension, alphabet, font, frames,
                   frame_char_rows, cur, cells, writers, out_extension, out_frames, stderr,
                   files>>

\* Line 237.
PrintStatic ==
    /\ pc = "print"
    /\ stdout' = Push(stdout, [clear |-> FALSE, text |-> out_frames[1]])
    /\ pc' = "returned"
    /\ UNCHANGED <<runVars, panicAt, image, in_extension, alphabet, font, frames,
                   frame_char_rows, cur, cells, writers, out_extension, out_frames, play,
                   elapsed, slept, stderr, files>>

Next ==
    \/ Download
    \/ InExtension
    \/ LoadAlphabet
    \/ LoadFont
    \/ ConvertCall
    \/ \E w \in 1..MaxThreads : Worker(w)
    \/ ConvertReturn
    \/ OutExtension
    \/ WriteJson
    \/ WriteGif
    \/ SaveImage
    \/ RenderTerminal
    \/ PlayFrame
    \/ PrintStatic

Spec == Init /\ [][Next]_vars

\* ------------------------------------------------------------------ server
\* A segment that is not valid UTF-8.
BadBytes == "<0xFF>"

RequestPaths ==
    {<<"host", "/", "img", ".", "gif">>, <<"a">>, <<"a", "/", "b">>, <<BadBytes>>}

\* PathBuf::to_str
ToStr(path) ==
    IF \E i \in 1..Len(path) : path[i] = BadBytes THEN None ELSE Some(path)

\* Lines 25-38 of main.rs.
HandlerParams(string_url) ==
    [image_url |-> <<"https://">> \o string_url, font |-> "bitocra-13",
     alphabet |-> "alphabet", width |-> 150, metric |-> "grad", threads |-> 1,
     no_color |-> FALSE, brightness_offset |-> 0, noise_scale |-> 0, out_path |-> None,
     fps |-> 30, no_edge_detection |-> FALSE]

\* A handler that passes the Params value it builds to generate.
get_image_url_generates(image_url) ==
    /\ Len(served) < MaxRequests
    /\ LET string_url == ToStr(image_url)
       IN IF string_url = None
          THEN /\ served' = Append(served, [route |-> "get_image_url", path |-> image_url,
                                            body |-> <<"Invalid URL">>])
               /\ UNCHANGED genVars
          ELSE /\ served' = Append(served, [route |-> "get_image_url", path |-> image_url,
                                            body |-> <<"URL: ">> \o Unwrap(string_url)])
               /\ args' = HandlerParams(Unwrap(string_url))
               /\ calls' = calls + 1
               /\ pc' = "start"
               /\ UNCHANGED <<remote, panicAt, image, in_extension, alphabet, font, frames,
                              frame_char_rows, cur, cells, writers, out_extension,
                              out_frames, play, elapsed, slept, prev_elapsed, stdout,
                              stderr, files>>

\* main.rs lines 17-41.  The Params value is built and dropped.
get_image_url(image_url) ==
    /\ Len(served) < MaxRequests
    /\ LET string_url == ToStr(image_url)
       IN IF string_url = None
          THEN served' = Append(served, [route |-> "get_image_url", path |-> image_url,
                                         body |-> <<"Invalid URL">>])
          ELSE served' = Append(served, [route |-> "get_image_url", path |-> image_url,
                                         body |-> <<"URL: ">> \o Unwrap(string_url)])
    /\ UNCHANGED genVars

\* main.rs lines 12-15.
index ==
    /\ Len(served) < MaxRequests
    /\ served' = Append(served, [route |-> "index", path |-> <<>>,
                                 body |-> <<"image-to-acsii-api">>])
    /\ UNCHANGED genVars

\* The server after launch: generate has not been entered.
InitServer ==
    /\ Idle
    /\ args = None
    /\ remote = 1
    /\ calls = 0
    /\ served = <<>>

NextServer ==
    \/ \E p \in RequestPaths : get_image_url(p)
    \/ index

SpecServer == InitServer /\ [][NextServer]_vars

\* ------------------------------------------------------------------ claims
IsGif == in_extension = Some(<<"gif">>)

\* The grid of a frame: cell (r, c) holds the glyph of the tile at (r, c).
ExpectedGrid(frame, width, catalog) ==
    [r \in 1..FrameRows |->
        [c \in 1..width |-> PickGlyph(frame, (r - 1) * width + c, catalog)]]

\* C1: once the frame list is built it holds one frame per decoded frame of the
\* input, in the input's order (exactly one for a static input).
C1_FramePerDecodedFrame ==
    frames # <<>> => frames = [i \in 1..remote |-> i]

InvalidConfig == args.width = 0 \/ args.fps <= 0 \/ args.threads = 0

\* C2: with width = 0, fps <= 0 or threads = 0, generate fails before any frame
\* is converted and before anything is written or printed.
C2_InvalidConfigRejected ==
    InvalidConfig =>
        /\ frame_char_rows = <<>>
        /\ stdout = <<>>
        /\ files = <<>>
        /\ pc \notin {"write", "render", "play", "print"}

\* C3: generate never panics, whatever its Params.
C3_NeverPanics == pc # "panicked"

\* C4: with a gif input and no out_path, terminal playback once begun goes on
\* for ever: it is never left, by a return or by a panic.
C4_PlaybackNeverStops ==
    (IsGif /\ args.out_path = None /\ out_frames # <<>>) => pc = "play"

\* C5: after each frame of the playback the sleep is max(0, 1/fps - t) for the
\* print time t of that frame alone.
C5_SleepIsPerFrame ==
    (pc = "play" /\ stdout # <<>>) =>
        slept = IF args.fps > 0 /\ (TicksPerSec \div args.fps) - elapsed > 0
                THEN (TicksPerSec \div args.fps) - elapsed
                ELSE 0

\* C5 witness: a frame slower than 1/fps was followed by a faster one, which got
\* its full sleep.
C5_Witness ==
    /\ pc = "play"
    /\ Len(stdout) >= 2
    /\ args.fps > 0
    /\ prev_elapsed > TicksPerSec \div args.fps
    /\ elapsed < TicksPerSec \div args.fps
    /\ slept = (TicksPerSec \div args.fps) - elapsed

C7_GridIndependentOfThreads ==
    /\ pc = "tiling" =>
         \A k \in DOMAIN cells :
            /\ Cardinality(writers[k]) <= 1
            /\ (cells[k] # Empty) <=> (writers[k] # {})
            /\ cells[k] # Empty => cells[k] = PickGlyph(frames[cur], k, alphabet)
    /\ \A i \in DOMAIN frame_char_rows :
         frame_char_rows[i] = ExpectedGrid(frames[i], args.width, alphabet)

\* C7 witness: two workers have filled the slots of one frame between them.
C7_Witness ==
    /\ pc = "tiling"
    /\ args.threads >= 2
    /\ \A k \in DOMAIN cells : cells[k] # Empty
    /\ \E j, k \in DOMAIN cells : writers[j] # writers[k]

\* C8: a run that reaches the output stage ends with exactly one artifact, at
\* out_path and of the kind its extension selects, and nothing on stdout; with
\* no out_path it writes no file.
C8_ExactlyOneArtifact ==
    /\ Len(files) <= 1
    /\ (pc \in {"returned", "panicked"} /\ frames # <<>> /\ cur > Len(frames)) =>
         IF args.out_path = None
         THEN files = <<>>
         ELSE /\ Len(files) = 1
              /\ stdout = <<>>
              /\ files[1].path = Unwrap(args.out_path)
              /\ files[1].kind =
                   (IF Extension(Unwrap(args.out_path)) = Some(<<"json">>) THEN "json"
                    ELSE IF Extension(Unwrap(args.out_path)) = Some(<<"gif">>) THEN "gif"
                    ELSE "bitmap")

\* C9: when the url has no http(s) scheme, or the download or decode failed,
\* generate reports one error and returns; no alphabet or font is loaded, no
\* frame converted, no file written and nothing printed.
C9_FailedFetchExposesNothing ==
    /\ args.image_url[1] \notin {"http://", "https://"} =>
         pc \in {"start", "returned"} /\ image = None
    /\ image = None =>
         /\ alphabet = <<>> /\ font = NoFont /\ frames = <<>>
         /\ frame_char_rows = <<>> /\ cells = <<>> /\ out_frames = <<>>
         /\ files = <<>> /\ stdout = <<>> /\ panicAt = 0
    /\ (pc = "returned" /\ image = None) =>
         stderr = <<IF args.image_url[1] \in {"http://", "https://"}
                    THEN "Error downloading image" ELSE "Invalid URL format">>

\* C9 witness: a download that failed, after a well-formed url.
C9_Witness ==
    /\ pc = "returned"
    /\ image = None
    /\ args.image_url[1] \in {"http://", "https://"}
    /\ stderr # <<>>

\* C10: the handler of GET /<image_url..> leaves generate untouched, answers
\* 'URL: ' and the path, or 'Invalid URL' for a path that is not UTF-8, and
\* answers a path the same way every time.
C10_HandlerNeverGenerates ==
    /\ calls = 0
    /\ Idle
    /\ \A i \in DOMAIN served :
         served[i].route = "get_image_url" =>
            served[i].body =
               (IF \E n \in DOMAIN served[i].path : served[i].path[n] = BadBytes
                THEN <<"Invalid URL">>
                ELSE <<"URL: ">> \o served[i].path)
    /\ \A i, j \in DOMAIN served :
         (served[i].route = served[j].route /\ served[i].path = served[j].path)
            => served[i].body = served[j].body

\* C10 witness: the same valid path served twice, and a path that is not UTF-8.
C10_Witness ==
    /\ Len(served) >= 3
    /\ \E i, j \in DOMAIN served :
         /\ i # j
         /\ served[i] = served[j]
         /\ served[i].route = "get_image_url"
         /\ served[i].body[1] = "URL: "
    /\ \E i \in DOMAIN served : served[i].body = <<"Invalid URL">>

====
